---- MODULE Spec2Model ----
(***************************************************************************)
(* A model of the detective game's non-UI core:                            *)
(*   - AIDetectiveEngine  (ai_handler.py): per-suspect conversations, the  *)
(*     two backends, the retry loop of the local backend;                  *)
(*   - parse_emotion_tag  (ai_handler.py) and map_emotion_to_image         *)
(*     (game_data.py): tag extraction and validation;                      *)
(*   - GameState          (game_state.py): day counter, notebook pages,    *)
(*     JSON save / load.                                                   *)
(*   - DetectiveGame      (main.py): the screens, the events of each       *)
(*     screen, the background threads and the flags they share with the    *)
(*     main loop.                                                          *)
(* The specifications share the variables: SpecEngine, SpecEmotion,        *)
(* SpecSave, and SpecGame, SpecBackend and SpecNotebook for the game; each *)
(* one holds the parts it does not move at their initial values.           *)
(***************************************************************************)
EXTENDS Integers, Sequences, FiniteSets, Bags, TLC

VARIABLES
    \* ---- AIDetectiveEngine ----
    use_api,             \* self.use_api and self.openai_client (routing test, line 531)
    api_chat_histories,  \* self.api_chat_histories: suspect -> list object (None when absent)
    chat_engines,        \* self.chat_engines: suspect -> chat engine object (None when absent)
    heap,                \* the messages held by each list / chat engine object
    full,                \* history: every message ever appended to the conversation an object continues
    req,                 \* the get_suspect_response call in progress (its locals)
    last_op,             \* history: the operation that produced this state
    \* ---- parse_emotion_tag ----
    response,            \* the model output handed to parse_emotion_tag
    parsed,              \* what parse_emotion_tag returned (or raised)
    \* ---- GameState ----
    gs,                  \* the GameState object of the running game
    save_file,           \* the content of savegame.json ("absent" when there is none)
    saved_gs,            \* history: the GameState at the time of the last save()
    loaded,              \* a fresh GameState after load(), with load()'s return value
    \* ---- DetectiveGame ----
    game,                \* the DetectiveGame object of the running process
    response_threads,    \* the get_response threads that have not finished yet
    warmup_threads,      \* the _init_ai_engine, generate_intro and generate_recap threads
    ai_settings,         \* ai_settings.json: the value of "isApiAvailable"
    OPENAI_AVAILABLE,    \* whether "from openai import OpenAI" succeeds
    seen                 \* history: what the claims need to remember of past steps

engineVars == <<use_api, api_chat_histories, chat_engines, heap, full, req, last_op>>
emotionVars == <<response, parsed>>
saveVars == <<gs, save_file, saved_gs, loaded>>
gameVars == <<game, response_threads, warmup_threads, ai_settings, OPENAI_AVAILABLE, seen>>
vars == <<use_api, api_chat_histories, chat_engines, heap, full, req, last_op,
          response, parsed, gs, save_file, saved_gs, loaded,
          game, response_threads, warmup_threads, ai_settings, OPENAI_AVAILABLE, seen>>

(***************************************************************************)
(* Bounds of the model.                                                    *)
(***************************************************************************)
\* questions asked within one conversation (11 exchanges = 22 messages > 20)
MaxExchanges == 11
\* fragments a model output is assembled from
MaxFragments == 4
\* days a game may last
MaxDay == 3
\* tokens generated by one model call
MaxTokens == 1

(***************************************************************************)
(* Small helpers on sequences.                                             *)
(***************************************************************************)
Min(a, b) == IF a < b THEN a ELSE b

\* Python's s[-n:]
LastN(s, n) == IF Len(s) <= n THEN s ELSE SubSeq(s, Len(s) - n + 1, Len(s))

\* Python's s[:n]
FirstN(s, n) == IF Len(s) <= n THEN s ELSE SubSeq(s, 1, n)

(***************************************************************************)
(*                          AIDetectiveEngine                              *)
(***************************************************************************)
Suspects == {1, 2}

None == 0

\* enough objects for one conversation per suspect, the list a request still
\* holds after a reset, and the copy a trim creates
ObjIds == 1 .. (Cardinality(Suspects) + 2)

\* for attempt in range(max_retries)
max_retries == 3

\* if len(chat_history) > 20: ... chat_history[-20:]
HistoryLimit == 20

Msg(role, n) == <<role, n>>

InFlight(r) == r.pc \in {"api_call", "ollama_chat"}

\* a text is the sequence of its tokens; a token the model generates is named by
\* the attempt (1, 2, 3) that generated it
NoText == <<>>

\* the reply text get_suspect_response's handler makes up
FallbackText == <<0>>

\* delivered: the tokens passed to stream_callback so far; full_response: the local
\* of that name; response_text: what get_suspect_response returned
IdleReq ==
    [pc |-> "idle", suspect_id |-> None, player_question |-> 0, streaming |-> FALSE,
     ref |-> None, attempt |-> 0, backoff |-> 1, log |-> <<>>, sleeps |-> <<>>,
     outcome |-> "none", delivered |-> NoText, full_response |-> NoText,
     response_text |-> NoText]

\* objects reachable from the two dictionaries or from the locals of the call in progress
Referenced(hist, eng, r) ==
    {hist[s] : s \in Suspects} \cup {eng[s] : s \in Suspects}
        \cup (IF InFlight(r) THEN {r.ref} ELSE {})

\* the object a constructor call returns: one nobody references
FreshObj(hist, eng, r) ==
    CHOOSE o \in ObjIds :
        /\ o \notin Referenced(hist, eng, r)
        /\ \A p \in ObjIds : p < o => p \in Referenced(hist, eng, r)

\* an object nobody references any more is gone
Collect(h, hist, eng, r) ==
    [o \in ObjIds |-> IF o \in Referenced(hist, eng, r) THEN h[o] ELSE <<>>]

InitEngineVars ==
    /\ use_api \in BOOLEAN
    /\ api_chat_histories = [s \in Suspects |-> None]
    /\ chat_engines = [s \in Suspects |-> None]
    /\ heap = [o \in ObjIds |-> <<>>]
    /\ full = [o \in ObjIds |-> <<>>]
    /\ req = IdleReq
    /\ last_op = "init"

(***************************************************************************)
(* get_suspect_response: the part up to the first model call.              *)
(***************************************************************************)
\* faulty variant: every question starts a new conversation
NeedsNewConversationAlways(conv, s) == TRUE

\* if suspect_id not in self.api_chat_histories / self.chat_engines
NeedsNewConversation(conv, s) == conv[s] = None

\* faulty variant: the dictionary is rebuilt with only this suspect in it
StoreConversationAlone(conv, s, o) == [t \in Suspects |-> IF t = s THEN o ELSE None]

\* self.api_chat_histories[suspect_id] = [] / self.chat_engines[suspect_id] = SimpleChatEngine(...)
StoreConversation(conv, s, o) == [conv EXCEPT ![s] = o]

\* the dictionary after "create the conversation if needed"
WithConversation(conv, s, o) ==
    IF NeedsNewConversation(conv, s) THEN StoreConversation(conv, s, o) ELSE conv

\* the locals of a call that has reached its model call; the question is
\* identified by its place in the conversation it continues
StartedReq(s, streaming, ref, pc) ==
    [pc |-> pc, suspect_id |-> s, player_question |-> (Len(full[ref]) \div 2) + 1,
     streaming |-> streaming, ref |-> ref, attempt |-> 0, backoff |-> 1,
     log |-> <<>>, sleeps |-> <<>>, outcome |-> "none", delivered |-> NoText,
     full_response |-> NoText, response_text |-> NoText]

\* get_suspect_response(suspect_id, question, streaming=..., stream_callback=...):
\* routing (line 531), then the chosen backend up to its model call
GetSuspectResponse(s, streaming) ==
    /\ ~InFlight(req)
    /\ LET o == FreshObj(api_chat_histories, chat_engines, IdleReq)
           hist == IF use_api THEN WithConversation(api_chat_histories, s, o)
                   ELSE api_chat_histories
           eng == IF use_api THEN chat_engines
                  ELSE WithConversation(chat_engines, s, o)
           ref == IF use_api THEN hist[s] ELSE eng[s]
           r == StartedReq(s, streaming, ref, IF use_api THEN "api_call" ELSE "ollama_chat")
       IN /\ r.player_question <= MaxExchanges
          /\ api_chat_histories' = hist
          /\ chat_engines' = eng
          /\ req' = r
          /\ heap' = Collect(heap, hist, eng, r)
          /\ full' = Collect(full, hist, eng, r)
    /\ last_op' = "ask"
    /\ UNCHANGED <<use_api, emotionVars, saveVars, gameVars>>

(***************************************************************************)
(* How a call ends.                                                        *)
(***************************************************************************)
\* faulty variant: the handler lets the exception escape to the caller
OuterExceptReraise(r) == [r EXCEPT !.pc = "returned", !.outcome = "raised"]

\* get_suspect_response's "except Exception": a fallback reply text is returned
OuterExcept(r) ==
    [r EXCEPT !.pc = "returned", !.outcome = "fallback", !.response_text = FallbackText]

\* return response_text (the full_response of the call that succeeded)
Returned(r) ==
    [r EXCEPT !.pc = "returned", !.outcome = "reply", !.response_text = r.full_response]

\* the n tokens the model generates in this call
Tokens(r, n) == [i \in 1 .. n |-> r.attempt + 1]

\* full_response = ""; for token in ...: full_response += token; stream_callback(token)
\* (without a callback the text arrives in one piece); n tokens arrive before the
\* call ends or raises
Streamed(r, n) ==
    [r EXCEPT !.full_response = Tokens(r, n),
              !.delivered = IF r.streaming THEN @ \o Tokens(r, n) ELSE @]

\* the two messages a completed exchange adds
Exchange(r) == <<Msg("user", r.player_question), Msg("assistant", r.player_question)>>

(***************************************************************************)
(* The remote backend: _get_suspect_response_api.                          *)
(***************************************************************************)
\* faulty variant: the oldest 20 messages are kept
TrimHistoryOldest(h) == FirstN(h, HistoryLimit)

\* chat_history[-20:]
TrimHistory(h) == LastN(h, HistoryLimit)

\* faulty variant: a failed API call is retried like a local one
ApiChatFailedRetry(r) ==
    IF r.attempt < max_retries - 1
    THEN [r EXCEPT !.log = Append(@, "fail"), !.sleeps = Append(@, r.backoff),
                   !.backoff = @ * 2, !.attempt = @ + 1]
    ELSE OuterExcept([r EXCEPT !.log = Append(@, "fail")])

\* _openai_chat raises: nothing catches it before get_suspect_response's handler
ApiChatFailed(r) == OuterExcept([r EXCEPT !.log = Append(@, "fail")])

\* faulty variant: the question is stored before the call is made
HistoryDuringCallWithQuestion(h, r) ==
    [h EXCEPT ![r.ref] = Append(@, Msg("user", r.player_question))]

\* _openai_chat copies chat_history into its own list "messages" and appends the
\* question there: the list the request holds is as it was when the call returns
\* or raises
HistoryDuringCall(h, r) == h

\* one call of _openai_chat, which generates n tokens, and what follows it
ApiChat(ok, n) ==
    /\ req.pc = "api_call"
    /\ ok => n > 0
    /\ IF ok
       THEN LET r == Returned([Streamed(req, n) EXCEPT !.log = Append(@, "ok")])
                s == req.suspect_id
                appended == HistoryDuringCall(heap, req)[req.ref] \o Exchange(req)
                \* the list the request holds grows in place
                h1 == [heap EXCEPT ![req.ref] = appended]
                f1 == [full EXCEPT ![req.ref] = @ \o Exchange(req)]
                trim == Len(appended) > HistoryLimit
                o == FreshObj(api_chat_histories, chat_engines, req)
                hist == IF trim THEN [api_chat_histories EXCEPT ![s] = o]
                        ELSE api_chat_histories
                h2 == IF trim THEN [h1 EXCEPT ![o] = TrimHistory(appended)] ELSE h1
                f2 == IF trim THEN [f1 EXCEPT ![o] = f1[req.ref]] ELSE f1
            IN /\ req' = r
               /\ api_chat_histories' = hist
               /\ heap' = Collect(h2, hist, chat_engines, r)
               /\ full' = Collect(f2, hist, chat_engines, r)
       ELSE LET r == ApiChatFailed(Streamed(req, n))
            IN /\ req' = r
               /\ UNCHANGED api_chat_histories
               /\ heap' = Collect(HistoryDuringCall(heap, req),
                                  api_chat_histories, chat_engines, r)
               /\ full' = Collect(full, api_chat_histories, chat_engines, r)
    /\ last_op' = "model_call"
    /\ UNCHANGED <<use_api, chat_engines, emotionVars, saveVars, gameVars>>

(***************************************************************************)
(* The local backend: _get_suspect_response_ollama.                        *)
(***************************************************************************)
\* faulty variant: the wait is not doubled
RetryAfterFailureFlat(r) ==
    IF r.attempt < max_retries - 1
    THEN [r EXCEPT !.log = Append(@, "fail"), !.sleeps = Append(@, r.backoff),
                   !.attempt = @ + 1]
    ELSE OuterExcept([r EXCEPT !.log = Append(@, "fail")])

\* the except clause of the retry loop (both the streaming and the standard loop):
\* sleep and double while attempts remain, re-raise after the last one
RetryAfterFailure(r) ==
    IF r.attempt < max_retries - 1
    THEN [r EXCEPT !.log = Append(@, "fail"), !.sleeps = Append(@, r.backoff),
                   !.backoff = @ * 2, !.attempt = @ + 1]
    ELSE OuterExcept([r EXCEPT !.log = Append(@, "fail")])

\* one pass of "for attempt in range(max_retries)": chat_engine.stream_chat (streaming
\* with a callback) or chat_engine.chat; a successful call leaves the exchange in the
\* engine's memory and ends the loop; n tokens are generated before the call ends
\* or raises
OllamaChat(ok, n) ==
    /\ req.pc = "ollama_chat"
    /\ ok => n > 0
    /\ LET r == IF ok THEN Returned([Streamed(req, n) EXCEPT !.log = Append(@, "ok")])
                ELSE RetryAfterFailure(Streamed(req, n))
           h1 == IF ok THEN [heap EXCEPT ![req.ref] = @ \o Exchange(req)] ELSE heap
           f1 == IF ok THEN [full EXCEPT ![req.ref] = @ \o Exchange(req)] ELSE full
       IN /\ req' = r
          /\ heap' = Collect(h1, api_chat_histories, chat_engines, r)
          /\ full' = Collect(f1, api_chat_histories, chat_engines, r)
    /\ last_op' = "model_call"
    /\ UNCHANGED <<use_api, api_chat_histories, chat_engines, emotionVars, saveVars, gameVars>>

(***************************************************************************)
(* Resets.                                                                 *)
(***************************************************************************)
\* reset_chat(suspect_id)
ResetChat(s) ==
    /\ \/ api_chat_histories[s] # None
       \/ chat_engines[s] # None
    /\ LET hist == [api_chat_histories EXCEPT ![s] = None]
           eng == [chat_engines EXCEPT ![s] = None]
       IN /\ api_chat_histories' = hist
          /\ chat_engines' = eng
          /\ heap' = Collect(heap, hist, eng, req)
          /\ full' = Collect(full, hist, eng, req)
    /\ last_op' = "reset"
    /\ UNCHANGED <<use_api, req, emotionVars, saveVars, gameVars>>

\* reset_all_chats()
ResetAllChats ==
    /\ \E s \in Suspects : api_chat_histories[s] # None \/ chat_engines[s] # None
    /\ LET hist == [s \in Suspects |-> None]
           eng == [s \in Suspects |-> None]
       IN /\ api_chat_histories' = hist
          /\ chat_engines' = eng
          /\ heap' = Collect(heap, hist, eng, req)
          /\ full' = Collect(full, hist, eng, req)
    /\ last_op' = "reset"
    /\ UNCHANGED <<use_api, req, emotionVars, saveVars, gameVars>>

NextEngine ==
    \/ \E s \in Suspects, streaming \in BOOLEAN : GetSuspectResponse(s, streaming)
    \/ \E ok \in BOOLEAN, n \in 0 .. MaxTokens : ApiChat(ok, n)
    \/ \E ok \in BOOLEAN, n \in 0 .. MaxTokens : OllamaChat(ok, n)
    \/ \E s \in Suspects : ResetChat(s)
    \/ ResetAllChats


(***************************************************************************)
(*                parse_emotion_tag / map_emotion_to_image                 *)
(*                                                                         *)
(* A text is a sequence of characters.  "w", "d" and "z" each stand for a  *)
(* whole word: "w" an emotion name, "d" the word default, "z" any other    *)
(* text; "'" stands for either quote character, " " for any whitespace and *)
(* "A" for one formatting artifact such as {'='*60}.                       *)
(***************************************************************************)
Fragments ==
    { <<"[">>, <<"]">>, <<" ">>, <<"'">>, <<"A">>, <<"z">>,
      <<"[", "w", "]">>, <<"[", " ", "w", " ", "]">>, <<"[", "d", "]">>, <<"[", "z", "]">> }

RECURSIVE Flatten(_)
Flatten(fs) == IF fs = <<>> THEN <<>> ELSE Head(fs) \o Flatten(Tail(fs))

\* the model outputs considered
Responses ==
    { Flatten(fs) : fs \in UNION { [1..n -> Fragments] : n \in 0..MaxFragments } }

\* ids asked about; 3 is not in the database
SuspectIds == {1, 2, 3}

\* the "characters" object of character_database.json, as _load_database keeps it:
\* per character its interview modes and its emotion -> image mapping
Characters ==
    (1 :> [interview_modes |-> {<<"w">>},
           emotion_mapping |-> (<<"w">> :> "happy.jpg" @@ <<"d">> :> "scared.jpg")])
    @@
    (2 :> [interview_modes |-> {<<"w">>},
           emotion_mapping |-> (<<"w">> :> "angry.jpg")])

\* str.strip()
RECURSIVE LStrip(_)
LStrip(s) == IF s # <<>> /\ Head(s) = " " THEN LStrip(Tail(s)) ELSE s

RECURSIVE RStrip(_)
RStrip(s) == IF s # <<>> /\ s[Len(s)] = " " THEN RStrip(SubSeq(s, 1, Len(s) - 1)) ELSE s

Strip(s) == RStrip(LStrip(s))

\* the two re.sub calls that delete formatting artifacts, then .strip()
CleanMalformed(s) == Strip(SelectSeq(s, LAMBDA c : c # "A"))

NoMatch == [start |-> 0, close |-> 0, end |-> 0]

\* where [^\]]+ must stop: the first "]" to the right of position i (0: none)
FirstCloseAfter(s, i) ==
    LET js == {j \in (i + 1)..Len(s) : s[j] = "]"}
    IN IF js = {} THEN 0 ELSE CHOOSE j \in js : \A k \in js : j <= k

\* \[([^\]]+)\] matches starting at position i
TagAt(s, i) == s[i] = "[" /\ FirstCloseAfter(s, i) > i + 1

\* \s*["\']?\s*$ matches what follows position j
TailMatches(s, j) ==
    \E k \in j..Len(s) :
        /\ \A m \in (j + 1)..k : s[m] = " "
        /\ \/ k = Len(s)
           \/ /\ s[k + 1] = "'"
              /\ \A m \in (k + 2)..Len(s) : s[m] = " "

\* re.search(pattern_end, response): the leftmost start that matches up to the end
SearchEnd(s) ==
    LET is == {i \in 1..Len(s) : TagAt(s, i) /\ TailMatches(s, FirstCloseAfter(s, i))}
    IN IF is = {} THEN NoMatch
       ELSE LET i == CHOOSE a \in is : \A b \in is : a <= b
            IN [start |-> i, close |-> FirstCloseAfter(s, i), end |-> Len(s)]

\* re.finditer(pattern_any, response) from position pos on: non-overlapping matches,
\* left to right; best is the last one seen so far
RECURSIVE LastMatchFrom(_, _, _)
LastMatchFrom(s, pos, best) ==
    LET is == {i \in pos..Len(s) : TagAt(s, i)}
    IN IF is = {} THEN best
       ELSE LET i == CHOOSE a \in is : \A b \in is : a <= b
                j == FirstCloseAfter(s, i)
            IN LastMatchFrom(s, j + 1, [start |-> i, close |-> j, end |-> j])

\* faulty variant: the first match is used
FindFirstTag(s) ==
    LET is == {i \in 1..Len(s) : TagAt(s, i)}
    IN IF is = {} THEN NoMatch
       ELSE LET i == CHOOSE a \in is : \A b \in is : a <= b
            IN [start |-> i, close |-> FirstCloseAfter(s, i), end |-> FirstCloseAfter(s, i)]

\* all_matches[-1]
FindLastTag(s) == LastMatchFrom(s, 1, NoMatch)

\* match: pattern_end first, then the last of all matches
FindTag(s) == IF SearchEnd(s) # NoMatch THEN SearchEnd(s) ELSE FindLastTag(s)

\* mapping.get("default", "other.jpg")
DefaultImageOf(mapping) ==
    IF <<"d">> \in DOMAIN mapping THEN mapping[<<"d">>] ELSE "other.jpg"

\* faulty variant: validity is decided by the interview modes
MapEmotionToImageByModes(suspect_id, emotion_tag) ==
    LET mapping == Characters[suspect_id].emotion_mapping
        tag == Strip(emotion_tag)
    IN IF tag \in Characters[suspect_id].interview_modes /\ tag \in DOMAIN mapping
       THEN [image |-> mapping[tag], is_valid |-> TRUE]
       ELSE [image |-> DefaultImageOf(mapping), is_valid |-> FALSE]

\* CharacterDatabase.map_emotion_to_image, for a character of the database
MapEmotionToImage(suspect_id, emotion_tag) ==
    LET mapping == Characters[suspect_id].emotion_mapping
        tag == Strip(emotion_tag)
    IN IF tag \in DOMAIN mapping
       THEN [image |-> mapping[tag], is_valid |-> TRUE]
       ELSE [image |-> DefaultImageOf(mapping), is_valid |-> FALSE]

\* faulty variant: a response without a tag always gets other.jpg
NoTagImageFixed(suspect_id) == "other.jpg"

\* the no-tag branch: emotion_mapping.get("default", "other.jpg")
NoTagImage(suspect_id) == DefaultImageOf(Characters[suspect_id].emotion_mapping)

NotParsed ==
    [status |-> "none", suspect_id |-> None, text |-> <<>>, found |-> FALSE,
     group |-> <<>>, tag |-> <<>>, cleaned |-> <<>>, image |-> "", is_valid |-> FALSE]

\* parse_emotion_tag(response, suspect_id): what it returns (image, cleaned, tag),
\* with the cleaned-up response it searched (text), whether a tag matched (found),
\* the matched group and map_emotion_to_image's verdict; get_emotion_mapping raises
\* ValueError for an id the database does not hold
ParseEmotionTag(resp, suspect_id) ==
    LET text == CleanMalformed(resp)
        m == FindTag(text)
        group == SubSeq(text, m.start + 1, m.close - 1)
        cleaned == Strip(SubSeq(text, 1, m.start - 1) \o SubSeq(text, m.end + 1, Len(text)))
    IN IF suspect_id \notin DOMAIN Characters
       THEN [NotParsed EXCEPT !.status = "ValueError", !.suspect_id = suspect_id,
                              !.text = text]
       ELSE IF m # NoMatch
       THEN LET r == MapEmotionToImage(suspect_id, Strip(group))
            IN [status |-> "ok", suspect_id |-> suspect_id, text |-> text, found |-> TRUE,
                group |-> group, tag |-> Strip(group), cleaned |-> cleaned,
                image |-> r.image, is_valid |-> r.is_valid]
       ELSE [status |-> "ok", suspect_id |-> suspect_id, text |-> text, found |-> FALSE,
             group |-> <<>>, tag |-> <<"d">>, cleaned |-> text,
             image |-> NoTagImage(suspect_id), is_valid |-> FALSE]

\* no output is being parsed
EmotionIdle ==
    /\ response = <<>>
    /\ parsed = NotParsed

\* DetectiveGame.update hands the output to parse_emotion_tag
Parse(suspect_id) ==
    /\ parsed.status = "none"
    /\ parsed' = ParseEmotionTag(response, suspect_id)
    /\ UNCHANGED <<response, engineVars, saveVars, gameVars>>

NextEmotion == \E suspect_id \in SuspectIds : Parse(suspect_id)


(***************************************************************************)
(*                               GameState                                 *)
(*                                                                         *)
(* current_day and a page's day hold an int or the str "Final": such a     *)
(* value carries its Python type.                                          *)
(***************************************************************************)
PyInt(n) == [t |-> "int", v |-> n]

PyStr(x) == [t |-> "str", v |-> x]

Final == PyStr("Final")

\* what the player may have typed on a page / what the intro generation may have stored
Contents == {"", "note"}

CaseFiles == {"", "intro"}

\* GameState.__init__
NewGameState ==
    [current_day |-> PyInt(1),
     notebook_pages |-> << [day |-> PyInt(1), content |-> ""] >>,
     game_ended |-> FALSE, win_state |-> "", intro_shown |-> FALSE,
     case_files_text |-> ""]

\* faulty variant: the page is appended before the counter is increased
AdvanceDayStalePage(g) ==
    IF g.current_day.t = "int"
    THEN [g EXCEPT !.current_day = PyInt(@.v + 1),
                   !.notebook_pages = Append(@, [day |-> g.current_day, content |-> ""])]
    ELSE g

\* advance_day(); "Final" + 1 raises TypeError and leaves the object as it was
AdvanceDay(g) ==
    IF g.current_day.t = "int"
    THEN [g EXCEPT !.current_day = PyInt(@.v + 1),
                   !.notebook_pages = Append(@, [day |-> PyInt(g.current_day.v + 1),
                                                  content |-> ""])]
    ELSE g

\* get_current_page(): the index of the first page of the current day or of the
\* Final page, else the last page
CurrentPageIndex(g) ==
    LET is == {i \in 1..Len(g.notebook_pages) :
                  \/ g.notebook_pages[i].day = g.current_day
                  \/ g.notebook_pages[i].day = Final}
    IN IF is = {} THEN Len(g.notebook_pages)
       ELSE CHOOSE i \in is : \A k \in is : i <= k

\* update_current_page(content)
UpdateCurrentPage(g, content) ==
    [g EXCEPT !.notebook_pages[CurrentPageIndex(g)].content = content]

\* create_final_page()
CreateFinalPage(g) ==
    IF \E i \in 1..Len(g.notebook_pages) : g.notebook_pages[i].day = Final
    THEN g
    ELSE [g EXCEPT !.notebook_pages = Append(@, [day |-> Final, content |-> ""]),
                   !.current_day = Final]

\* reset()
ResetState(g) == NewGameState

(***************************************************************************)
(* JSON: json.dump writes a number for an int, a string for a str and      *)
(* true/false for a bool; json.load reads them back by the kind of token.  *)
(***************************************************************************)
JNumber(n) == [j |-> "number", lit |-> n]

JString(x) == [j |-> "string", lit |-> x]

JBool(b) == [j |-> IF b THEN "true" ELSE "false"]

\* faulty variant: the day is written as text
DumpDayAsText(d) == JString(IF d.t = "int" THEN "day" ELSE d.v)

\* json.dump of an int-or-str value
DumpDay(d) == IF d.t = "int" THEN JNumber(d.v) ELSE JString(d.v)

\* json.load of a number or string token
LoadDay(j) == IF j.j = "number" THEN PyInt(j.lit) ELSE PyStr(j.lit)

\* json.load of true / false
LoadBool(j) == j.j = "true"

\* save(): the document json.dump writes
JsonDump(g) ==
    [current_day |-> DumpDay(g.current_day),
     notebook_pages |-> [i \in 1..Len(g.notebook_pages) |->
                            [day |-> DumpDay(g.notebook_pages[i].day),
                             content |-> JString(g.notebook_pages[i].content)]],
     game_ended |-> JBool(g.game_ended),
     win_state |-> JString(g.win_state),
     intro_shown |-> JBool(g.intro_shown),
     case_files_text |-> JString(g.case_files_text)]

\* load(): the fields read from the document json.load returns
JsonLoad(doc) ==
    [current_day |-> LoadDay(doc.current_day),
     notebook_pages |-> [i \in 1..Len(doc.notebook_pages) |->
                            [day |-> LoadDay(doc.notebook_pages[i].day),
                             content |-> doc.notebook_pages[i].content.lit]],
     game_ended |-> LoadBool(doc.game_ended),
     win_state |-> doc.win_state.lit,
     intro_shown |-> LoadBool(doc.intro_shown),
     case_files_text |-> doc.case_files_text.lit]

Absent == [j |-> "absent"]

NotLoaded == [done |-> FALSE, ok |-> FALSE, state |-> NewGameState]

\* GameState(); load(): False when there is no file
LoadFresh(file) ==
    IF file = Absent
    THEN [done |-> TRUE, ok |-> FALSE, state |-> NewGameState]
    ELSE [done |-> TRUE, ok |-> TRUE, state |-> JsonLoad(file)]

SaveIdle ==
    /\ gs = NewGameState
    /\ save_file = Absent
    /\ saved_gs = NewGameState
    /\ loaded = NotLoaded

\* an operation on the running GameState; a fresh one loaded earlier is forgotten
Mutate(g) ==
    /\ g # gs
    /\ gs' = g
    /\ loaded' = NotLoaded
    /\ UNCHANGED <<save_file, saved_gs, engineVars, emotionVars, gameVars>>

DoAdvanceDay ==
    /\ gs.current_day.t = "int" => gs.current_day.v < MaxDay
    /\ Mutate(AdvanceDay(gs))

DoUpdateCurrentPage(content) == Mutate(UpdateCurrentPage(gs, content))

DoCreateFinalPage == Mutate(CreateFinalPage(gs))

\* _start_new_game: intro_shown = True;  generate_intro / _use_fallback_intro:
\* case_files_text = intro_text
DoIntro(text) == Mutate([gs EXCEPT !.intro_shown = TRUE, !.case_files_text = text])

\* _accuse_suspect(suspect_id): suspect 2 is the murderer
DoAccuse(suspect_id) ==
    Mutate([gs EXCEPT !.win_state = IF suspect_id = 2 THEN "win" ELSE "lose",
                      !.game_ended = TRUE])

\* save()
DoSave ==
    /\ save_file' = JsonDump(gs)
    /\ saved_gs' = gs
    /\ loaded' = NotLoaded
    /\ save_file' # save_file \/ loaded' # loaded
    /\ UNCHANGED <<gs, engineVars, emotionVars, gameVars>>

\* a fresh GameState loads the file
DoLoadFresh ==
    /\ ~loaded.done
    /\ loaded' = LoadFresh(save_file)
    /\ UNCHANGED <<gs, save_file, saved_gs, engineVars, emotionVars, gameVars>>

\* _delete_save: os.remove("savegame.json") and reset()
DoDeleteSave ==
    /\ save_file # Absent \/ gs # NewGameState
    /\ save_file' = Absent
    /\ gs' = ResetState(gs)
    /\ saved_gs' = NewGameState
    /\ loaded' = NotLoaded
    /\ UNCHANGED <<engineVars, emotionVars, gameVars>>

NextSave ==
    \/ DoAdvanceDay
    \/ \E content \in Contents : DoUpdateCurrentPage(content)
    \/ DoCreateFinalPage
    \/ \E text \in CaseFiles : DoIntro(text)
    \/ \E suspect_id \in Suspects : DoAccuse(suspect_id)
    \/ DoSave
    \/ DoLoadFresh
    \/ DoDeleteSave

(***************************************************************************)
(*                             DetectiveGame                               *)
(*                                                                         *)
(* One step is one event handled by handle_events, one pass of update, or  *)
(* one step of a background thread.  The process may end at any time       *)
(* (window closed, ESC, the exit button, an uncaught exception) and be     *)
(* started again: what survives is savegame.json and ai_settings.json.     *)
(* The case-file popup is left out.  The notebook popup and what is typed  *)
(* into it are followed by SpecNotebook.                                   *)
(***************************************************************************)
\* get_response threads alive at the same time
MaxThreads == 2

\* generate_intro threads alive at the same time
MaxIntroThreads == 1

\* days played in one game
MaxGameDay == 2

\* self.ai_engine = None, with the fields of the engine it will hold
NoEngine == [built |-> FALSE, use_api |-> FALSE, openai_client |-> FALSE]

\* AIDetectiveEngine.__init__: use_api is read from the settings; the client is
\* built only when the package is there, and a failure to build it clears use_api
NewEngine(enabled, available, client_ok) ==
    [built |-> TRUE,
     use_api |-> IF enabled /\ available THEN client_ok ELSE enabled,
     openai_client |-> enabled /\ available /\ client_ok]

\* faulty variant: only self.use_api is tested
RouteByFlag(e) == IF e.use_api THEN "api" ELSE "local"

\* get_suspect_response: if self.use_api and self.openai_client
Route(e) == IF e.use_api /\ e.openai_client THEN "api" ELSE "local"

(***************************************************************************)
(* NotebookPanel.  A page content is a str, text_lines the list of its     *)
(* lines; page indices are 0-based as in the source.                       *)
(***************************************************************************)
\* the last line (0-based) of the longest text
MaxLine == 1

\* the texts a page may hold: nothing, one line, two lines
PageContents == {"", "note", "note\nmore"}

\* content.split('\n')
SplitLines(content) ==
    CASE content = "" -> <<"">>
      [] content = "note" -> <<"note">>
      [] content = "note\nmore" -> <<"note", "more">>

\* '\n'.join(self.text_lines)
JoinLines(text_lines) ==
    CASE text_lines = <<>> -> ""
      [] text_lines = <<"">> -> ""
      [] text_lines = <<"note">> -> "note"
      [] text_lines = <<"note", "more">> -> "note\nmore"

\* get_total_pages()
TotalPages(g) == Len(g.notebook_pages)

\* get_page_by_index(index), for an index below get_total_pages()
PageByIndex(g, index) == g.notebook_pages[index + 1]

\* _get_right_page_index
RightPageIndex(nb) == nb.current_spread_index * 2

\* _get_left_page_index
LeftPageIndex(nb) == nb.current_spread_index * 2 + 1

\* _get_active_page_index
ActivePageIndex(nb) ==
    IF nb.active_side = 0 THEN RightPageIndex(nb) ELSE LeftPageIndex(nb)

\* faulty variant: every page that exists can be edited
IsPageEditableAny(g, page_index) == page_index < TotalPages(g)

\* _is_page_editable(page_index)
IsPageEditable(g, page_index) ==
    /\ page_index < TotalPages(g)
    /\ \/ PageByIndex(g, page_index).day = g.current_day
       \/ PageByIndex(g, page_index).day = Final

\* _is_current_page_editable
IsCurrentPageEditable(nb, g) == IsPageEditable(g, ActivePageIndex(nb))

\* the test _load_current_spread makes on each side of the spread
IsPageOfToday(g, page_index) ==
    /\ page_index < TotalPages(g)
    /\ \/ PageByIndex(g, page_index).day = g.current_day
       \/ PageByIndex(g, page_index).day = Final

\* _load_current_spread: the side holding the page of the current day (or the
\* Final page) becomes active, the right side first, the right side also when
\* neither does; text_lines is loaded from the active page, the cursor goes to
\* its first line
LoadCurrentSpread(nb, g) ==
    LET side == IF IsPageOfToday(g, RightPageIndex(nb)) THEN 0
                ELSE IF IsPageOfToday(g, LeftPageIndex(nb)) THEN 1
                ELSE 0
        active == IF side = 0 THEN RightPageIndex(nb) ELSE LeftPageIndex(nb)
    IN [nb EXCEPT !.active_side = side,
                  !.text_lines = IF active < TotalPages(g)
                                 THEN SplitLines(PageByIndex(g, active).content)
                                 ELSE <<"">>,
                  !.cursor_line = 0]

\* _save_current_page: the GameState after it
SaveCurrentPage(nb, g) ==
    IF ActivePageIndex(nb) < TotalPages(g)
    THEN [g EXCEPT !.notebook_pages[ActivePageIndex(nb) + 1].content =
                       JoinLines(nb.text_lines)]
    ELSE g

\* NotebookPanel.__init__
NewNotebookPanel(g) ==
    LoadCurrentSpread([current_spread_index |-> 0, active_side |-> 0,
                       text_lines |-> <<>>, cursor_line |-> 0], g)

\* go_to_spread_containing_page(page_index): the panel after it, g being the
\* GameState after its _save_current_page
GoToSpreadContainingPage(nb, g, page_index) ==
    LoadCurrentSpread([nb EXCEPT !.current_spread_index = page_index \div 2], g)

\* go_to_latest_page: the panel after it
GoToLatestPage(nb, g) == GoToSpreadContainingPage(nb, g, TotalPages(g) - 1)

\* DetectiveGame.__init__; ai_response holds the suspect the text answers for
NewGame ==
    [state |-> "loading", current_suspect |-> 1, day_started |-> FALSE,
     ai_thinking |-> FALSE, ai_response_ready |-> FALSE, ai_response |-> None,
     is_disabled |-> FALSE, intro_complete |-> FALSE, load_recap_complete |-> FALSE,
     ai_engine |-> NoEngine,
     notebook_panel |-> NewNotebookPanel(NewGameState), notebook_visible |-> FALSE]

\* DetectiveGame.__init__ after game_state.load() has returned g
NewGameWith(g) == [NewGame EXCEPT !.notebook_panel = NewNotebookPanel(g)]

\* a get_response thread: the suspect on screen when the question was asked, whom
\* the thread passes to get_suspect_response as its first step, and the backend the
\* call was routed to
NewThread(asked, e) == [asked |-> asked, backend |-> Route(e)]

NoThreads == [init |-> FALSE, intro |-> 0, recap |-> FALSE]

\* warmed: a warm-up was started in this process for the game on screen;
\* selected_on: the day on which a suspect was last selected; accused: the suspect
\* accused in the game on file; shown: for whom the last reply was asked and for whom
\* it was parsed; construction: what the settings said when the engine was built and
\* whether OpenAI(...) returned a client
NothingSeen ==
    [warmed |-> FALSE, selected_on |-> PyInt(0), accused |-> None,
     shown |-> [asked |-> None, used |-> None],
     construction |-> [enabled |-> FALSE, client_ok |-> FALSE]]

\* _create_ui_elements: the widgets are built anew; a game without case-file text
\* gets the sample text
CreateUiElements(g) ==
    IF g.case_files_text = "" THEN [g EXCEPT !.case_files_text = "sample"] ELSE g

\* the input box and the ask button _create_ui_elements builds are enabled, the
\* notebook popup is closed
WithNewWidgets(d) == [d EXCEPT !.is_disabled = FALSE, !.notebook_visible = FALSE]

\* faulty variant: a game whose intro was shown goes straight back to the interview
StartScreenResume(g, day_started, recap_complete) ==
    IF g.game_ended THEN g.win_state
    ELSE IF day_started \/ g.intro_shown THEN "playing"
    ELSE IF g.current_day = PyInt(1) /\ ~g.intro_shown THEN "intro"
    ELSE "suspect_selection"

\* faulty variant: an ended game is started like any other
StartScreenReplay(g, day_started, recap_complete) ==
    IF day_started THEN "playing"
    ELSE IF g.current_day = PyInt(1) /\ ~g.intro_shown THEN "intro"
    ELSE IF g.intro_shown /\ ~recap_complete THEN "load_recap"
    ELSE "suspect_selection"

\* faulty variant: a loaded game skips the news recap
StartScreenNoRecap(g, day_started, recap_complete) ==
    IF g.game_ended THEN g.win_state
    ELSE IF day_started THEN "playing"
    ELSE IF g.current_day = PyInt(1) /\ ~g.intro_shown THEN "intro"
    ELSE "suspect_selection"

\* _start_new_game: the screen it switches to
StartScreen(g, day_started, recap_complete) ==
    IF g.game_ended THEN g.win_state
    ELSE IF day_started THEN "playing"
    ELSE IF g.current_day = PyInt(1) /\ ~g.intro_shown THEN "intro"
    ELSE IF g.intro_shown /\ ~recap_complete THEN "load_recap"
    ELSE "suspect_selection"

\* faulty variant: suspect 1 is taken for the murderer
VerdictFirst(suspect_id) == IF suspect_id = 1 THEN "win" ELSE "lose"

\* _accuse_suspect: suspect 2 is the murderer
Verdict(suspect_id) == IF suspect_id = 2 THEN "win" ELSE "lose"

\* the intro and news-recap handlers of handle_events leave for the suspect
\* selection and clear the request flags
ToSuspectSelection(d) ==
    [d EXCEPT !.state = "suspect_selection", !.ai_thinking = FALSE,
              !.ai_response_ready = FALSE, !.ai_response = None]

\* the process as DetectiveGame.__init__ leaves it: the save file loaded, the
\* widgets created, the engine being built in its thread
GameInit ==
    /\ game = NewGame
    /\ response_threads = EmptyBag
    /\ warmup_threads = [NoThreads EXCEPT !.init = TRUE]
    /\ seen = NothingSeen

\* the parts of the game no other specification moves
GameIdle ==
    /\ game = NewGame
    /\ response_threads = EmptyBag
    /\ warmup_threads = NoThreads
    /\ ai_settings = FALSE
    /\ OPENAI_AVAILABLE = FALSE
    /\ seen = NothingSeen

\* what no step of the game moves: the conversations kept by the engine and the
\* parsing of a reply are followed by SpecEngine and SpecEmotion
GameFrame == UNCHANGED <<engineVars, emotionVars, loaded, OPENAI_AVAILABLE>>

\* game_state.save()
SaveGame(g) ==
    /\ save_file' = JsonDump(g)
    /\ saved_gs' = g

\* a new process: DetectiveGame.__init__ (load(), _create_ui_elements, the
\* _init_ai_engine thread started); the threads of the old process are gone
NewProcess ==
    /\ game' = NewGameWith(LoadFresh(save_file).state)
    /\ gs' = CreateUiElements(LoadFresh(save_file).state)
    /\ response_threads' = EmptyBag
    /\ warmup_threads' = [NoThreads EXCEPT !.init = TRUE]
    /\ seen' = [NothingSeen EXCEPT !.accused = seen.accused]
    /\ UNCHANGED <<save_file, saved_gs, ai_settings>>
    /\ GameFrame

\* pygame.QUIT, ESC outside the credits, or the exit button: run() ends; the game
\* is started again later
ExitAndRestart == NewProcess

\* the _init_ai_engine thread: AIDetectiveEngine() and, when it did not raise,
\* the switch to the menu
InitAiEngine(built, client_ok) ==
    /\ warmup_threads.init
    /\ client_ok => (built /\ ai_settings /\ OPENAI_AVAILABLE)
    /\ warmup_threads' = [warmup_threads EXCEPT !.init = FALSE]
    /\ game' = IF built
               THEN [game EXCEPT !.ai_engine =
                                     NewEngine(ai_settings, OPENAI_AVAILABLE, client_ok),
                                 !.state = "menu"]
               ELSE game
    /\ seen' = IF built
               THEN [seen EXCEPT !.construction =
                                     [enabled |-> ai_settings, client_ok |-> client_ok]]
               ELSE seen
    /\ UNCHANGED <<response_threads, ai_settings, gs, save_file, saved_gs>>
    /\ GameFrame

\* F11: toggle_fullscreen, then the same KEYDOWN event reaches the handler of the
\* current screen (a finished intro or recap is left on any key)
ToggleFullscreen ==
    /\ LET d == [WithNewWidgets(game) EXCEPT !.notebook_panel = NewNotebookPanel(gs)]
           leave == \/ game.state = "intro" /\ game.intro_complete
                    \/ game.state = "load_recap" /\ game.load_recap_complete
       IN game' = IF leave THEN ToSuspectSelection(d) ELSE d
    /\ gs' = CreateUiElements(gs)
    /\ UNCHANGED <<response_threads, warmup_threads, ai_settings, seen, save_file, saved_gs>>
    /\ GameFrame

\* the start button of the menu: _start_new_game, with _start_intro_streaming or
\* _start_load_recap
StartNewGame ==
    /\ game.state = "menu"
    /\ LET target == StartScreen(gs, game.day_started, game.load_recap_complete)
       IN /\ target = "intro" => warmup_threads.intro < MaxIntroThreads
          /\ game' = [game EXCEPT
                        !.state = target,
                        !.intro_complete = IF target = "intro" THEN FALSE ELSE @,
                        !.load_recap_complete = IF target = "load_recap" THEN FALSE ELSE @]
          /\ gs' = IF target = "intro" THEN [gs EXCEPT !.intro_shown = TRUE] ELSE gs
          /\ warmup_threads' =
                [warmup_threads EXCEPT
                    !.intro = IF target = "intro" THEN @ + 1 ELSE @,
                    !.recap = IF target = "load_recap" THEN TRUE ELSE @]
          /\ seen' = [seen EXCEPT !.warmed = @ \/ target \in {"intro", "load_recap"}]
    /\ UNCHANGED <<response_threads, ai_settings, save_file, saved_gs>>
    /\ GameFrame

\* the delete-save button of the menu (it acts only when the file exists): _delete_save
DeleteSave ==
    /\ game.state = "menu"
    /\ save_file # Absent
    /\ save_file' = Absent
    /\ saved_gs' = NewGameState
    /\ gs' = ResetState(gs)
    /\ game' = [game EXCEPT
                  !.day_started = FALSE,
                  !.notebook_panel =
                      LoadCurrentSpread([@ EXCEPT !.current_spread_index = 0],
                                        ResetState(gs))]
    /\ seen' = [seen EXCEPT !.warmed = FALSE, !.accused = None]
    /\ UNCHANGED <<response_threads, warmup_threads, ai_settings>>
    /\ GameFrame

\* the credits button of the menu
OpenCredits ==
    /\ game.state = "menu"
    /\ game' = [game EXCEPT !.state = "credits"]
    /\ UNCHANGED <<response_threads, warmup_threads, ai_settings, seen, saveVars>>
    /\ GameFrame

\* the settings button of the menu
OpenSettings ==
    /\ game.state = "menu"
    /\ game' = [game EXCEPT !.state = "settings"]
    /\ UNCHANGED <<response_threads, warmup_threads, ai_settings, seen, saveVars>>
    /\ GameFrame

\* the back button of the credits or of the settings, ESC in the credits
BackToMenu ==
    /\ game.state \in {"credits", "settings"}
    /\ game' = [game EXCEPT !.state = "menu"]
    /\ UNCHANGED <<response_threads, warmup_threads, ai_settings, seen, saveVars>>
    /\ GameFrame

\* the save button of the settings screen, with the API toggle set as the player
\* left it and fields that pass the validation: _save_settings writes the file and
\* leaves the engine as it is
SaveSettings(api_mode) ==
    /\ game.state = "settings"
    /\ ai_settings' = api_mode
    /\ UNCHANGED <<game, response_threads, warmup_threads, seen, saveVars>>
    /\ GameFrame

\* the intro screen: the skip button while the intro is generated, any key or
\* click once it is complete
LeaveIntro ==
    /\ game.state = "intro"
    /\ game' = ToSuspectSelection([game EXCEPT !.intro_complete = TRUE])
    /\ UNCHANGED <<response_threads, warmup_threads, ai_settings, seen, saveVars>>
    /\ GameFrame

\* the news-recap screen: the same two ways out
LeaveRecap ==
    /\ game.state = "load_recap"
    /\ game' = ToSuspectSelection([game EXCEPT !.load_recap_complete = TRUE])
    /\ UNCHANGED <<response_threads, warmup_threads, ai_settings, seen, saveVars>>
    /\ GameFrame

\* a click on a suspect card: _select_suspect_for_day; the portrait now shows the
\* selected suspect's default image
SelectSuspectForDay(suspect_id) ==
    /\ game.state = "suspect_selection"
    /\ game' = [game EXCEPT !.current_suspect = suspect_id, !.day_started = TRUE,
                            !.state = "playing"]
    /\ seen' = [seen EXCEPT !.selected_on = gs.current_day,
                            !.shown = NothingSeen.shown]
    /\ UNCHANGED <<response_threads, warmup_threads, ai_settings, saveVars>>
    /\ GameFrame

\* Enter in the input box or the ask button, with a question typed (neither
\* reacts while disabled): _ask_question, and the get_response thread it starts up
\* to its call of get_suspect_response
AskQuestion ==
    /\ game.state = "playing"
    /\ ~game.notebook_visible
    /\ ~game.is_disabled
    /\ game.ai_engine.built
    /\ BagCardinality(response_threads) < MaxThreads
    /\ game' = [game EXCEPT !.is_disabled = TRUE, !.ai_thinking = TRUE]
    /\ response_threads' =
          response_threads (+) SetToBag({NewThread(game.current_suspect, game.ai_engine)})
    /\ UNCHANGED <<warmup_threads, ai_settings, seen, saveVars>>
    /\ GameFrame

\* get_response: the call has returned (a reply or the fallback text);
\* self.ai_response = response; self.ai_response_ready = True
ThreadFinish(t) ==
    /\ BagIn(t, response_threads)
    /\ response_threads' = response_threads (-) SetToBag({t})
    /\ game' = [game EXCEPT !.ai_response = t.asked, !.ai_response_ready = TRUE]
    /\ UNCHANGED <<warmup_threads, ai_settings, seen, saveVars>>
    /\ GameFrame

\* update() on the playing screen with the ready flag set: the flags are cleared,
\* the widgets enabled, the reply parsed for self.current_suspect
Update ==
    /\ game.state = "playing"
    /\ game.ai_response_ready
    /\ game' = [game EXCEPT !.ai_thinking = FALSE, !.ai_response_ready = FALSE,
                            !.is_disabled = FALSE]
    /\ seen' = [seen EXCEPT !.shown = [asked |-> game.ai_response,
                                       used |-> game.current_suspect]]
    /\ UNCHANGED <<response_threads, warmup_threads, ai_settings, saveVars>>
    /\ GameFrame

\* the door button: _end_day (the notebook page is saved, the day advanced, the
\* file written, the notebook turned to the new page).  advance_day raises
\* TypeError when current_day is "Final"; nothing catches it, run() ends and the
\* game is started again
EndDay ==
    /\ game.state = "playing"
    /\ ~game.notebook_visible
    /\ gs.current_day.t = "int" => gs.current_day.v < MaxGameDay
    /\ IF gs.current_day.t = "int"
       THEN LET advanced == AdvanceDay(SaveCurrentPage(game.notebook_panel, gs))
                turned == SaveCurrentPage(game.notebook_panel, advanced)
            IN /\ gs' = turned
               /\ SaveGame(advanced)
               /\ game' = [game EXCEPT
                             !.day_started = FALSE, !.state = "suspect_selection",
                             !.notebook_panel = GoToLatestPage(@, turned)]
               /\ UNCHANGED <<response_threads, warmup_threads, ai_settings, seen>>
               /\ GameFrame
       ELSE NewProcess

\* the accuse button: _make_accusation
MakeAccusation ==
    /\ game.state = "playing"
    /\ ~game.notebook_visible
    /\ LET final == CreateFinalPage(SaveCurrentPage(game.notebook_panel, gs))
           turned == SaveCurrentPage(game.notebook_panel, final)
       IN /\ gs' = turned
          /\ SaveGame(turned)
          /\ game' = [game EXCEPT !.state = "accusation",
                                  !.notebook_panel = GoToLatestPage(@, turned)]
    /\ UNCHANGED <<response_threads, warmup_threads, ai_settings, seen>>
    /\ GameFrame

\* a button of the accusation screen: _accuse_suspect
AccuseSuspect(suspect_id) ==
    /\ game.state = "accusation"
    /\ LET g == [gs EXCEPT !.win_state = Verdict(suspect_id), !.game_ended = TRUE]
       IN /\ gs' = g
          /\ SaveGame(g)
    /\ game' = [game EXCEPT !.state = Verdict(suspect_id)]
    /\ seen' = [seen EXCEPT !.accused = suspect_id]
    /\ UNCHANGED <<response_threads, warmup_threads, ai_settings>>
    /\ GameFrame

\* the menu button of the playing screen
GameMenu ==
    /\ game.state = "playing"
    /\ ~game.notebook_visible
    /\ game' = [game EXCEPT !.state = "menu"]
    /\ UNCHANGED <<response_threads, warmup_threads, ai_settings, seen, saveVars>>
    /\ GameFrame

\* the menu button of the win / lose screen
EndMenu ==
    /\ game.state \in {"win", "lose"}
    /\ ~game.notebook_visible
    /\ SaveGame(gs)
    /\ game' = [game EXCEPT !.state = "menu"]
    /\ UNCHANGED <<gs, response_threads, warmup_threads, ai_settings, seen>>
    /\ GameFrame

\* generate_intro ends: the generated text, or _use_fallback_intro
IntroThreadFinish(text) ==
    /\ warmup_threads.intro > 0
    /\ warmup_threads' = [warmup_threads EXCEPT !.intro = @ - 1]
    /\ game' = [game EXCEPT !.intro_complete = TRUE]
    /\ gs' = [gs EXCEPT !.case_files_text = text]
    /\ SaveGame([gs EXCEPT !.case_files_text = text])
    /\ UNCHANGED <<response_threads, ai_settings, seen>>
    /\ GameFrame

\* generate_recap ends, with or without an exception
RecapThreadFinish ==
    /\ warmup_threads.recap
    /\ warmup_threads' = [warmup_threads EXCEPT !.recap = FALSE]
    /\ game' = [game EXCEPT !.load_recap_complete = TRUE]
    /\ UNCHANGED <<response_threads, ai_settings, seen, saveVars>>
    /\ GameFrame

\* the notebook button of the playing screen and of the win / lose screen
OpenNotebook ==
    /\ game.state \in {"playing", "win", "lose"}
    /\ ~game.notebook_visible
    /\ game' = [game EXCEPT !.notebook_visible = TRUE]
    /\ UNCHANGED <<response_threads, warmup_threads, ai_settings, seen, saveVars>>
    /\ GameFrame

\* the close button of the popup, a click outside it, or ESC
CloseNotebook ==
    /\ game.notebook_visible
    /\ game' = [game EXCEPT !.notebook_visible = FALSE]
    /\ UNCHANGED <<response_threads, warmup_threads, ai_settings, seen, saveVars>>
    /\ GameFrame

\* the previous (-1) / next (+1) button with the spread it asks for in range.
\* Playing screen: NotebookPanel.handle_event saves the active page, turns and
\* loads; win / lose screen: handle_events turns and loads
TurnSpread(step) ==
    /\ game.state \in {"playing", "win", "lose"}
    /\ game.notebook_visible
    /\ LET nb == game.notebook_panel
           max_spread == (TotalPages(gs) - 1) \div 2
           g == IF game.state = "playing" THEN SaveCurrentPage(nb, gs) ELSE gs
       IN /\ step = -1 => nb.current_spread_index > 0
          /\ step = 1 => nb.current_spread_index < max_spread
          /\ gs' = g
          /\ game' = [game EXCEPT !.notebook_panel =
                          LoadCurrentSpread([nb EXCEPT !.current_spread_index = @ + step], g)]
    /\ UNCHANGED <<response_threads, warmup_threads, ai_settings, seen, save_file, saved_gs>>
    /\ GameFrame

\* a click on the right (0) or left (1) page of the spread, at the height of a
\* line: NotebookPanel.handle_event reaches it only when the active page can be
\* edited; it changes side only to a page that can be edited, and puts the cursor
\* on the line clicked or on the last one
ClickPage(side, line) ==
    /\ game.state = "playing"
    /\ game.notebook_visible
    /\ IsCurrentPageEditable(game.notebook_panel, gs)
    /\ LET nb == game.notebook_panel
           clicked == IF side = 1 THEN LeftPageIndex(nb) ELSE RightPageIndex(nb)
           switch == IsPageEditable(gs, clicked) /\ nb.active_side # side
           g == IF switch THEN SaveCurrentPage(nb, gs) ELSE gs
           shown == IF switch THEN LoadCurrentSpread([nb EXCEPT !.active_side = side], g)
                    ELSE nb
       IN /\ gs' = g
          /\ game' = [game EXCEPT !.notebook_panel =
                          [shown EXCEPT !.cursor_line = Min(Len(shown.text_lines) - 1, line)]]
    /\ UNCHANGED <<response_threads, warmup_threads, ai_settings, seen, save_file, saved_gs>>
    /\ GameFrame

\* a key that changes the text (a printable character, Enter, Backspace):
\* NotebookPanel.handle_event edits text_lines, moves the cursor and calls
\* _save_current_page
EditText(text_lines, cursor_line) ==
    /\ game.state = "playing"
    /\ game.notebook_visible
    /\ IsCurrentPageEditable(game.notebook_panel, gs)
    /\ text_lines # game.notebook_panel.text_lines
    /\ cursor_line < Len(text_lines)
    /\ LET nb == [game.notebook_panel EXCEPT !.text_lines = text_lines,
                                             !.cursor_line = cursor_line]
       IN /\ game' = [game EXCEPT !.notebook_panel = nb]
          /\ gs' = SaveCurrentPage(nb, gs)
    /\ UNCHANGED <<response_threads, warmup_threads, ai_settings, seen, save_file, saved_gs>>
    /\ GameFrame

\* the events and thread steps that leave the settings file alone
NextGame ==
    \/ ExitAndRestart
    \/ \E built, client_ok \in BOOLEAN : InitAiEngine(built, client_ok)
    \/ ToggleFullscreen
    \/ StartNewGame
    \/ DeleteSave
    \/ OpenCredits
    \/ OpenSettings
    \/ BackToMenu
    \/ LeaveIntro
    \/ LeaveRecap
    \/ \E suspect_id \in Suspects : SelectSuspectForDay(suspect_id)
    \/ AskQuestion
    \/ \E t \in BagToSet(response_threads) : ThreadFinish(t)
    \/ Update
    \/ EndDay
    \/ MakeAccusation
    \/ \E suspect_id \in Suspects : AccuseSuspect(suspect_id)
    \/ GameMenu
    \/ EndMenu
    \/ \E text \in CaseFiles \ {""} : IntroThreadFinish(text)
    \/ RecapThreadFinish

\* the settings screen and the way from a new process to a question and its reply,
\* within the first day of a game
NextBackend ==
    \/ ExitAndRestart
    \/ \E built, client_ok \in BOOLEAN : InitAiEngine(built, client_ok)
    \/ ToggleFullscreen
    \/ StartNewGame
    \/ DeleteSave
    \/ OpenSettings
    \/ BackToMenu
    \/ \E api_mode \in BOOLEAN : SaveSettings(api_mode)
    \/ LeaveIntro
    \/ LeaveRecap
    \/ \E suspect_id \in Suspects : SelectSuspectForDay(suspect_id)
    \/ AskQuestion
    \/ \E t \in BagToSet(response_threads) : ThreadFinish(t)
    \/ Update
    \/ GameMenu
    \/ \E text \in CaseFiles \ {""} : IntroThreadFinish(text)
    \/ RecapThreadFinish

\* the notebook, and the events that change the pages under it; no question is
\* asked
NextNotebook ==
    \/ ExitAndRestart
    \/ \E built, client_ok \in BOOLEAN : InitAiEngine(built, client_ok)
    \/ ToggleFullscreen
    \/ StartNewGame
    \/ DeleteSave
    \/ LeaveIntro
    \/ LeaveRecap
    \/ \E suspect_id \in Suspects : SelectSuspectForDay(suspect_id)
    \/ EndDay
    \/ MakeAccusation
    \/ \E suspect_id \in Suspects : AccuseSuspect(suspect_id)
    \/ GameMenu
    \/ EndMenu
    \/ \E text \in CaseFiles \ {""} : IntroThreadFinish(text)
    \/ RecapThreadFinish
    \/ OpenNotebook
    \/ CloseNotebook
    \/ \E step \in {-1, 1} : TurnSpread(step)
    \/ \E side \in {0, 1}, line \in 0 .. MaxLine : ClickPage(side, line)
    \/ \E content \in PageContents, cursor_line \in 0 .. MaxLine :
           EditText(SplitLines(content), cursor_line)

(***************************************************************************)
(* The specifications.                                                     *)
(***************************************************************************)
InitEngine == InitEngineVars /\ EmotionIdle /\ SaveIdle /\ GameIdle

SpecEngine == InitEngine /\ [][NextEngine]_vars

InitEmotion ==
    /\ InitEngineVars /\ use_api = FALSE
    /\ response \in Responses
    /\ parsed = NotParsed
    /\ SaveIdle
    /\ GameIdle

SpecEmotion == InitEmotion /\ [][NextEmotion]_vars

InitSave == InitEngineVars /\ use_api = FALSE /\ EmotionIdle /\ SaveIdle /\ GameIdle

SpecSave == InitSave /\ [][NextSave]_vars

\* the game started for the first time: no save file
FirstStart ==
    /\ InitEngineVars /\ use_api = FALSE
    /\ EmotionIdle
    /\ gs = CreateUiElements(NewGameState)
    /\ save_file = Absent
    /\ saved_gs = NewGameState
    /\ loaded = NotLoaded
    /\ GameInit

\* the settings file as settings.py creates it (DEFAULT_SETTINGS)
InitGame ==
    /\ FirstStart
    /\ ai_settings = FALSE
    /\ OPENAI_AVAILABLE = TRUE

SpecGame == InitGame /\ [][NextGame]_vars

\* any settings file, with or without the openai package
InitBackend ==
    /\ FirstStart
    /\ ai_settings \in BOOLEAN
    /\ OPENAI_AVAILABLE \in BOOLEAN

SpecBackend == InitBackend /\ [][NextBackend]_vars

SpecNotebook == InitGame /\ [][NextNotebook]_vars


(***************************************************************************)
(*                     Claims about AIDetectiveEngine                      *)
(***************************************************************************)
Failures(r) == Cardinality({i \in 1..Len(r.log) : r.log[i] = "fail"})

AllFailed(r) == r.log # <<>> /\ \A i \in 1..Len(r.log) : r.log[i] = "fail"

\* C1: in local-model mode a suspect-response request (streaming or not) makes at
\* most 3 model calls, makes none after a successful one (a success is always the
\* last entry of the call log and ends the request), and waits 1 s after the first
\* failure and 2 s after the second.
C1_LocalRetry ==
    ~use_api =>
        /\ Len(req.log) <= 3
        /\ \A i \in 1..Len(req.log) : req.log[i] = "ok" => i = Len(req.log)
        /\ (req.log # <<>> /\ req.log[Len(req.log)] = "ok") => req.pc = "returned"
        /\ req.sleeps = SubSeq(<<1, 2>>, 1, Min(Failures(req), 2))
        /\ InFlight(req) => Len(req.log) < 3

\* C1 witness: a local request that failed twice, waited 1 s then 2 s, and
\* succeeded on its third call.
C1_Witness ==
    /\ ~use_api
    /\ req.pc = "returned"
    /\ req.log = <<"fail", "fail", "ok">>
    /\ req.sleeps = <<1, 2>>
    /\ req.outcome = "reply"

\* C2 as stated: when every attempt has failed, the caller of get_suspect_response
\* receives an error, not a reply text.
C2_Original ==
    (req.pc = "returned" /\ AllFailed(req)) => req.outcome = "raised"

\* C2 amended: when every attempt has failed, the failure reaches
\* get_suspect_response's own handler, which returns the fallback reply text to the
\* caller; no exception leaves get_suspect_response, and the fallback text is
\* returned in no other case.
C2_FallbackReturned ==
    /\ req.outcome # "raised"
    /\ req.pc = "returned" =>
          /\ AllFailed(req) <=> req.outcome = "fallback"
          /\ ~AllFailed(req) <=> req.outcome = "reply"

\* C2 witness: a local request whose three calls all failed has returned.
C2_Witness ==
    /\ ~use_api
    /\ req.pc = "returned"
    /\ req.log = <<"fail", "fail", "fail">>
    /\ req.outcome = "fallback"

\* C3 as stated: in either backend a request that ends in failure has made 3 calls.
C3_Original ==
    (req.pc = "returned" /\ AllFailed(req)) => Len(req.log) = 3

\* C3 amended: only the local backend retries.  In remote-API mode a request makes
\* exactly one model call and never waits; a failed call ends the request at once
\* with the fallback reply.  In local mode a request that ends in failure has made
\* 3 calls.
C3_RetryOnlyLocal ==
    /\ use_api =>
          /\ Len(req.log) <= 1
          /\ req.sleeps = <<>>
          /\ req.log # <<>> => req.pc = "returned"
    /\ (~use_api /\ req.pc = "returned" /\ AllFailed(req)) => Len(req.log) = 3

\* C3 witness: an API request has ended after a single failed call.
C3_Witness ==
    /\ use_api
    /\ req.pc = "returned"
    /\ req.log = <<"fail">>
    /\ req.outcome = "fallback"

\* C4: in remote-API mode every stored history holds at most 20 messages, and they
\* are the most recent messages of its conversation in their original order.
C4_HistoryBounded ==
    use_api =>
        \A s \in Suspects :
            api_chat_histories[s] # None =>
                /\ Len(heap[api_chat_histories[s]]) <= 20
                /\ heap[api_chat_histories[s]] = LastN(full[api_chat_histories[s]], 20)

\* C4 witness: a history of 20 messages whose conversation has seen 22.
C4_Witness ==
    /\ use_api
    /\ \E s \in Suspects :
          /\ api_chat_histories[s] # None
          /\ Len(heap[api_chat_histories[s]]) = 20
          /\ Len(full[api_chat_histories[s]]) = 22
          /\ heap[api_chat_histories[s]][1] = <<"user", 2>>

\* the conversation object kept for suspect s, given the two dictionaries
ConversationIn(hist, eng, s) == IF use_api THEN hist[s] ELSE eng[s]

\* the messages of the conversation kept for suspect s
StoredIn(hp, hist, eng, s) ==
    IF ConversationIn(hist, eng, s) = None THEN <<>> ELSE hp[ConversationIn(hist, eng, s)]

Conversation(s) == ConversationIn(api_chat_histories, chat_engines, s)

Stored(s) == StoredIn(heap, api_chat_histories, chat_engines, s)

\* C5: the first question to a suspect creates its (empty) conversation; a later
\* question, with no reset in between, is put to that same conversation, and the
\* model call it makes leaves the stored conversation in place, extended by the
\* question and the reply when the call succeeds (in API mode cut to its last 20).
C5_OneConversationPerSuspect ==
    [][ \A s \in Suspects :
          LET conv == Conversation(s)
              convNext == ConversationIn(api_chat_histories', chat_engines', s)
              stored == Stored(s)
              storedNext == StoredIn(heap', api_chat_histories', chat_engines', s)
              exchange == <<Msg("user", req.player_question),
                            Msg("assistant", req.player_question)>>
          IN /\ (last_op' = "ask" /\ req'.suspect_id = s) =>
                   IF conv = None
                   THEN convNext # None /\ storedNext = <<>> /\ req'.ref = convNext
                   ELSE convNext = conv /\ storedNext = stored /\ req'.ref = conv
             /\ (last_op' = "model_call" /\ req.suspect_id = s /\ conv # None) =>
                   /\ convNext # None
                   /\ IF req'.outcome = "reply" /\ req.ref = conv
                      THEN /\ storedNext =
                                LastN(stored \o exchange,
                                      IF use_api THEN 20 ELSE Len(stored) + 2)
                           /\ full'[convNext] = full[conv] \o exchange
                      ELSE storedNext = stored
      ]_vars

\* C5 witness: the second question to a suspect has been answered and the stored
\* conversation holds both exchanges.
C5_Witness ==
    /\ req.pc = "returned"
    /\ req.outcome = "reply"
    /\ req.player_question = 2
    /\ Stored(req.suspect_id) = <<<<"user", 1>>, <<"assistant", 1>>,
                                  <<"user", 2>>, <<"assistant", 2>>>>

\* C6: a step of a question asked to one suspect changes nothing stored for any
\* other suspect: neither which conversation object it has nor its messages.
C6_OtherSuspectsUntouched ==
    [][ last_op' \in {"ask", "model_call"} =>
            \A t \in Suspects :
                t # req'.suspect_id =>
                    /\ api_chat_histories'[t] = api_chat_histories[t]
                    /\ chat_engines'[t] = chat_engines[t]
                    /\ StoredIn(heap', api_chat_histories', chat_engines', t) = Stored(t)
      ]_vars

\* C6 witness: a question to one suspect has been answered while another suspect
\* has a conversation of its own.
C6_Witness ==
    /\ req.pc = "returned"
    /\ req.outcome = "reply"
    /\ \E t \in Suspects :
          /\ t # req.suspect_id
          /\ Stored(t) # <<>>
          /\ Stored(req.suspect_id) # <<>>

\* C23: in remote-API mode a call of get_suspect_response whose model call fails
\* returns the fallback reply and leaves every stored history as it was (the failed
\* question is not stored); a call whose model call succeeds returns the reply and
\* appends the question and then the reply, and nothing else, to the history it
\* continues (which is afterwards cut to its last 20 messages).
C23_ApiFailureStoresNothing ==
    [][ (use_api /\ req.pc = "api_call" /\ last_op' = "model_call") =>
          LET s == req.suspect_id
              question == Msg("user", req.player_question)
              reply == Msg("assistant", req.player_question)
              storedNext == StoredIn(heap', api_chat_histories', chat_engines', s)
          IN /\ req'.pc = "returned"
             /\ req'.outcome = (IF req'.log = <<"fail">> THEN "fallback" ELSE "reply")
             /\ req'.outcome = "fallback" =>
                   /\ api_chat_histories' = api_chat_histories
                   /\ \A t \in Suspects :
                         StoredIn(heap', api_chat_histories', chat_engines', t) = Stored(t)
             /\ (req'.outcome = "reply" /\ Conversation(s) = req.ref) =>
                   /\ storedNext = LastN(Stored(s) \o <<question, reply>>, HistoryLimit)
                   /\ full'[api_chat_histories'[s]] = full[req.ref] \o <<question, reply>>
      ]_vars

\* C23 witness: the second question to a suspect has failed in API mode: the
\* fallback reply was returned after one call and the history still holds the first
\* exchange only.
C23_Witness ==
    /\ use_api
    /\ req.pc = "returned"
    /\ req.outcome = "fallback"
    /\ req.log = <<"fail">>
    /\ req.player_question = 2
    /\ Stored(req.suspect_id) = <<Msg("user", 1), Msg("assistant", 1)>>

\* C24: when a streaming request has returned a reply, the tokens delivered to
\* stream_callback, put together, are the text returned, also when an attempt
\* failed part-way through the stream and was retried.
C24_StreamedIsReturned ==
    (req.pc = "returned" /\ req.streaming /\ req.outcome = "reply")
        => req.delivered = req.response_text

\* C17: once no suspect has a stored conversation (as after reset_all_chats, which
\* _end_day calls), none has one until the next question is asked: the completion
\* of a request that was in flight stores nothing.
C17_ResetStaysReset ==
    [][ ((\A s \in Suspects : Conversation(s) = None) /\ last_op' # "ask")
            => \A s \in Suspects :
                   ConversationIn(api_chat_histories', chat_engines', s) = None
      ]_vars

(***************************************************************************)
(*                      Claims about parse_emotion_tag                     *)
(***************************************************************************)
\* the bracketed tags of a text: an opening bracket, at least one character that
\* is not a closing bracket, and the closing bracket
BracketedTags(t) ==
    { sp \in (1..Len(t)) \X (1..Len(t)) :
        /\ t[sp[1]] = "[" /\ t[sp[2]] = "]" /\ sp[2] > sp[1] + 1
        /\ \A k \in (sp[1] + 1)..(sp[2] - 1) : t[k] # "]" }

\* a tag ends the text when only whitespace and at most one quote follow it
EndsText(t, sp) ==
    LET rest == SelectSeq(SubSeq(t, sp[2] + 1, Len(t)), LAMBDA c : c # " ")
    IN rest \in {<<>>, <<"'">>}

\* the text without its leading and trailing whitespace
Trimmed(x) ==
    IF \A i \in 1..Len(x) : x[i] = " " THEN <<>>
    ELSE LET a == CHOOSE i \in 1..Len(x) : x[i] # " " /\ \A k \in 1..(i - 1) : x[k] = " "
             b == CHOOSE i \in 1..Len(x) : x[i] # " " /\ \A k \in (i + 1)..Len(x) : x[k] = " "
         IN SubSeq(x, a, b)

\* C7: for a suspect of the database, parse_emotion_tag reports the (trimmed)
\* content of a bracketed tag that ends the response when there is one, otherwise
\* of the bracketed tag that closes last in the response, and the name default when
\* the response holds no bracketed tag; the cleaned text is the response without the
\* reported tag (and without what follows a tag that ends it).
C7_TagExtraction ==
    parsed.status = "ok" =>
        LET t == parsed.text
            tags == BracketedTags(t)
            ending == {sp \in tags : EndsText(t, sp)}
            last == {sp \in tags : \A other \in tags : other[2] <= sp[2]}
        IN IF ending # {}
           THEN /\ parsed.found
                /\ \E sp \in ending :
                      /\ parsed.tag = Trimmed(SubSeq(t, sp[1] + 1, sp[2] - 1))
                      /\ parsed.cleaned = Trimmed(SubSeq(t, 1, sp[1] - 1))
           ELSE IF tags # {}
           THEN /\ parsed.found
                /\ \E sp \in last :
                      /\ parsed.tag = Trimmed(SubSeq(t, sp[1] + 1, sp[2] - 1))
                      /\ parsed.cleaned =
                            Trimmed(SubSeq(t, 1, sp[1] - 1) \o SubSeq(t, sp[2] + 1, Len(t)))
           ELSE /\ ~parsed.found
                /\ parsed.tag = <<"d">>
                /\ parsed.cleaned = t

\* C7 witness: a response with two tags followed by other text; the second tag is
\* the one reported.
C7_Witness ==
    /\ parsed.status = "ok"
    /\ parsed.text = <<"[", "w", "]", "[", "z", "]", "z">>
    /\ parsed.tag = <<"z">>
    /\ parsed.cleaned = <<"[", "w", "]", "z">>

C9_DefaultImage ==
    parsed.status = "ok" =>
        LET mapping == Characters[parsed.suspect_id].emotion_mapping
            default == IF <<"d">> \in DOMAIN mapping THEN mapping[<<"d">>] ELSE "other.jpg"
        IN /\ (~parsed.found \/ ~parsed.is_valid) => parsed.image = default
           /\ parsed.image \in {mapping[k] : k \in DOMAIN mapping} \cup {"other.jpg"}

\* C9 witness: a response without any tag, for the suspect whose mapping has a
\* default entry, got that entry's image.
C9_Witness ==
    /\ parsed.status = "ok"
    /\ parsed.suspect_id = 1
    /\ ~parsed.found
    /\ parsed.text # <<>>
    /\ parsed.image = "scared.jpg"


(***************************************************************************)
(*                         Claims about GameState                          *)
(***************************************************************************)
\* C10: save() followed by load() on a fresh GameState restores current_day,
\* notebook_pages, game_ended, win_state, intro_shown and case_files_text exactly
\* as they were when saved, whatever state was saved (current_day "Final" included).
C10_SaveLoadRoundTrip ==
    (loaded.done /\ save_file # Absent) =>
        /\ loaded.ok
        /\ loaded.state.current_day = saved_gs.current_day
        /\ loaded.state.notebook_pages = saved_gs.notebook_pages
        /\ loaded.state.game_ended = saved_gs.game_ended
        /\ loaded.state.win_state = saved_gs.win_state
        /\ loaded.state.intro_shown = saved_gs.intro_shown
        /\ loaded.state.case_files_text = saved_gs.case_files_text

\* C10 witness: a game saved on its Final page, after an accusation, with notes on
\* an earlier page, has been loaded into a fresh GameState.
C10_Witness ==
    /\ loaded.ok
    /\ loaded.state.current_day = Final
    /\ Len(loaded.state.notebook_pages) >= 3
    /\ loaded.state.notebook_pages[1] = [day |-> PyInt(1), content |-> "note"]
    /\ loaded.state.game_ended
    /\ loaded.state.win_state = "win"
    /\ loaded.state.case_files_text = "intro"

\* the pages that carry a day number
NumberedPages(g) ==
    {i \in 1..Len(g.notebook_pages) : g.notebook_pages[i].day.t = "int"}

\* C21: after any sequence of advance_day, update_current_page, create_final_page
\* and reset, notebook_pages holds one page per day 1..N in ascending order,
\* optionally followed by one "Final" page as its last element; while current_day
\* is a number it equals N.
C21_NotebookPages ==
    LET pages == gs.notebook_pages
        N == Cardinality(NumberedPages(gs))
    IN /\ N >= 1
       /\ \A i \in 1..N : pages[i].day = PyInt(i)
       /\ \/ Len(pages) = N
          \/ Len(pages) = N + 1 /\ pages[N + 1].day = Final
       /\ gs.current_day.t = "int" => gs.current_day = PyInt(N)

\* C21 witness: two days were ended, notes were taken on the third day, and the
\* Final page was created: pages 1, 2, 3, Final.
C21_Witness ==
    /\ Len(gs.notebook_pages) = 4
    /\ gs.notebook_pages[4].day = Final
    /\ gs.notebook_pages[3] = [day |-> PyInt(3), content |-> "note"]
    /\ gs.current_day = Final

(***************************************************************************)
(*                       Claims about DetectiveGame                        *)
(***************************************************************************)
\* the screen is entered by this step
Enters(screens) == game'.state \in screens /\ game.state \notin screens

\* C11: the screens follow the order menu, intro (or news recap), suspect
\* selection, playing, accusation, win / lose: the intro and the recap are entered
\* only from the menu; the suspect selection only from the intro, the recap, the
\* menu or the playing screen (end of day); the playing screen only when a suspect
\* has been selected for the current day; the accusation screen only from the
\* playing screen; the win or lose screen only by an accusation or by starting from
\* the menu a game that has already ended.
C11_ScreenOrder ==
    [][ /\ Enters({"intro", "load_recap"}) => game.state = "menu"
        /\ Enters({"suspect_selection"}) =>
              game.state \in {"intro", "load_recap", "menu", "playing"}
        /\ Enters({"playing"}) =>
              /\ game.state \in {"suspect_selection", "menu"}
              /\ game'.day_started
              /\ seen'.selected_on = gs'.current_day
        /\ Enters({"accusation"}) => game.state = "playing"
        /\ Enters({"win", "lose"}) =>
              \/ game.state = "accusation"
              \/ game.state = "menu" /\ gs.game_ended
      ]_vars

\* C11 witness: the playing screen is shown on the second day of a loaded game (its
\* news recap was shown in this process), with suspect 2 selected that day.
C11_Witness ==
    /\ game.state = "playing"
    /\ game.day_started
    /\ gs.current_day = PyInt(2)
    /\ seen.selected_on = PyInt(2)
    /\ game.current_suspect = 2
    /\ game.load_recap_complete

\* C12: whenever the player is on the playing screen, where questions are asked, a
\* warm-up generation (story intro or news recap) has been started since the
\* process started and since the save was last deleted.
C12_WarmUpBeforeQuestions ==
    game.state = "playing" => seen.warmed /\ ~gs.game_ended

\* C12 witness: a question is in flight in a game loaded from the save file, whose
\* warm-up was the news recap.
C12_Witness ==
    /\ game.state = "playing"
    /\ response_threads # EmptyBag
    /\ seen.warmed
    /\ warmup_threads.recap
    /\ warmup_threads.intro = 0
    /\ ~game.intro_complete

\* the backend the construction of the engine decided on
BackendAtConstruction ==
    IF seen.construction.enabled /\ OPENAI_AVAILABLE /\ seen.construction.client_ok
    THEN "api" ELSE "local"

C14_OneRequestInFlight ==
    /\ BagCardinality(response_threads) <= 1
    /\ (response_threads # EmptyBag \/ game.ai_response_ready) => game.is_disabled

\* C15: a question is always completed in the UI: whenever the input is disabled
\* or ai_thinking is set and no request thread is running any more, the ready flag
\* is set, so that update() on the playing screen clears ai_thinking and enables
\* the input box and the ask button again.
C15_InputReenabled ==
    ((game.is_disabled \/ game.ai_thinking) /\ response_threads = EmptyBag)
        => game.ai_response_ready

\* C16: the reply update() parses was asked to the suspect it is parsed for (and
\* whose portrait is updated).
C16_ParsedForAskedSuspect == seen.shown.asked = seen.shown.used

\* C18: the playing screen, where the door button ends the day, is never shown
\* while current_day is "Final".
C18_EndDayOnlyOnNumber == game.state = "playing" => gs.current_day.t = "int"

\* the screens of a game in progress
InGame == {"intro", "load_recap", "suspect_selection", "playing", "accusation"}

\* C19: once game_ended is true it stays true, in this process and in later ones,
\* until the save is deleted; meanwhile no screen of a game in progress is shown, and
\* leaving the menu for a game screen leads to the stored win or lose screen.
C19_EndedGameStaysEnded ==
    [][ gs.game_ended =>
          /\ gs'.game_ended \/ (save_file' = Absent /\ gs' = NewGameState)
          /\ gs'.game_ended => game'.state \notin InGame
          /\ (game.state = "menu" /\ game'.state \notin {"menu", "credits", "settings", "loading"})
                => game'.state = gs.win_state /\ gs.win_state \in {"win", "lose"}
      ]_vars

\* C19 witness: in a process started after the accusation (no warm-up was started
\* in it), the start button of the menu has led to the stored win screen.
C19_Witness ==
    /\ game.state = "win"
    /\ gs.game_ended
    /\ gs.win_state = "win"
    /\ ~seen.warmed
    /\ game.ai_engine.built

\* C20: an accusation leads to the win screen exactly when the accused suspect is
\* suspect 2 and to the lose screen otherwise, stores that outcome in win_state, sets
\* game_ended and saves; game_ended implies that win_state is win or lose.
C20_AccusationOutcome ==
    [][ /\ game.state = "accusation" /\ game'.state \notin {"accusation", "loading"} =>
              /\ seen'.accused \in Suspects
              /\ game'.state = IF seen'.accused = 2 THEN "win" ELSE "lose"
              /\ gs'.win_state = game'.state
              /\ gs'.game_ended
              /\ save_file' = JsonDump(gs')
        /\ gs'.game_ended => gs'.win_state \in {"win", "lose"}
      ]_vars

\* C20 witness: suspect 1 has been accused: the lose screen is shown and the save
\* file holds the ended game.
C20_Witness ==
    /\ game.state = "lose"
    /\ seen.accused = 1
    /\ gs.game_ended
    /\ gs.win_state = "lose"
    /\ save_file = JsonDump(gs)

\* the page at position i (1-based) belongs to a day before the current one
EarlierPage(g, i) ==
    /\ g.notebook_pages[i].day.t = "int"
    /\ \/ g.current_day.t = "str"
       \/ g.notebook_pages[i].day.v < g.current_day.v

\* C22: no event (typing, Enter, Backspace, turning to another spread, clicking a
\* page, ending the day, making the accusation, F11, leaving and starting the game
\* again) changes a page of an earlier day, as long as the save is not deleted.
C22_EarlierPagesKept ==
    [][ (save_file' # Absent \/ save_file = Absent) =>
            \A i \in 1 .. Len(gs.notebook_pages) :
                EarlierPage(gs, i) =>
                    /\ i <= Len(gs'.notebook_pages)
                    /\ gs'.notebook_pages[i] = gs.notebook_pages[i]
      ]_vars

\* C22 witness: on the second day the notebook is open on the spread of days 1
\* and 2: the page of day 1 holds the note taken on day 1, two lines have been
\* typed on the page of day 2 and the cursor is on the second.
C22_Witness ==
    /\ game.state = "playing"
    /\ game.notebook_visible
    /\ gs.current_day = PyInt(2)
    /\ gs.notebook_pages[1] = [day |-> PyInt(1), content |-> "note"]
    /\ gs.notebook_pages[2] = [day |-> PyInt(2), content |-> "note\nmore"]
    /\ game.notebook_panel.active_side = 1
    /\ game.notebook_panel.cursor_line = 1


====
